---- MODULE Spec2Model ----
(***************************************************************************)
(* A model of ModelLoader ("AFIRGEN FINAL/model_loader.py"): the registry  *)
(* of model configs, the per-model load state machine with validation and  *)
(* retries, load_all_models in sequential and in bounded-parallel mode,    *)
(* the post-load gating and the health verdict.                            *)
(***************************************************************************)
EXTENDS Integers, Sequences, FiniteSets, TLC

(***************************************************************************)
(* Bounds of the model.                                                    *)
(***************************************************************************)
\* retry_count of a registered config ranges over 0..MaxRetry
MaxRetry == 2
\* an explicit max_workers argument ranges over 1..MaxWorkersArg
MaxWorkersArg == 2
\* number of explicit single-model reload requests
MaxReloads == 1
\* retry_count of a config whose loader calls and sleeps are recorded ranges
\* over 0..MaxRecordedRetry
MaxRecordedRetry == 3

\* The model names.  Names are interchangeable (every config can be given to
\* every name), so fresh names are registered in the order of NameOrder.
NameOrder == <<"A", "B", "C">>
Names == {NameOrder[i] : i \in 1..Len(NameOrder)}

(***************************************************************************)
(* ModelStatus                                                             *)
(***************************************************************************)
NOT_LOADED == "not_loaded"
LOADING == "loading"
LOADED == "loaded"
FAILED == "failed"

\* Python's None for a handle, a message and a checksum
NoHandle == <<>>
None == "None"
NoChecksum == <<>>

\* default cap of the worker pool: min(len(self.model_configs), 3)
DefaultWorkerCap == 3

Min(a, b) == IF a < b THEN a ELSE b

(***************************************************************************)
(* The environment: what the artifact at a config's path looks like when   *)
(* it is validated, and what one call of the loader capability does.       *)
(***************************************************************************)
\* a hex digest is a sequence of characters; str.lower() acts per character
LowerChar(c) == CASE c = "A" -> "a" [] c = "B" -> "b" [] c = "C" -> "c"
                  [] c = "D" -> "d" [] OTHER -> c
Lower(s) == [i \in 1..Len(s) |-> LowerChar(s[i])]

GoodDigest == <<"a", "b">>
BadDigest == <<"c", "d">>
\* expected_checksum values of a config: None, or the good digest in upper case
ExpectedChecksums == {NoChecksum, <<"A", "B">>}

File(e, f, s, r, v, d) ==
    [exists |-> e, is_file |-> f, size |-> s, readable |-> r, vanishes |-> v, digest |-> d]
\* vanishes: the file is removed between path.exists() and path.stat(), so
\* that path.stat() raises (an exception no handler of the loader catches)
MissingFile == File(FALSE, FALSE, 0, FALSE, FALSE, GoodDigest)
Directory == File(TRUE, FALSE, 0, TRUE, FALSE, GoodDigest)
EmptyFile == File(TRUE, TRUE, 0, TRUE, FALSE, GoodDigest)
UnreadableFile == File(TRUE, TRUE, 1, FALSE, FALSE, GoodDigest)
VanishingFile == File(TRUE, TRUE, 1, TRUE, TRUE, GoodDigest)
GoodFile == File(TRUE, TRUE, 1, TRUE, FALSE, GoodDigest)
TamperedFile == File(TRUE, TRUE, 1, TRUE, FALSE, BadDigest)
AllFiles == {MissingFile, Directory, EmptyFile, UnreadableFile, VanishingFile,
             GoodFile, TamperedFile}
\* every state of a path that does not change while it is validated: a path
\* that does not exist is no file, has no size and is not accessible; a
\* directory, an empty file and an unreadable file can be anything else
FileSpace ==
    {x \in {File(e, f, s, r, FALSE, d) :
                e \in BOOLEAN, f \in BOOLEAN, s \in 0..1, r \in BOOLEAN,
                d \in {GoodDigest, BadDigest}} :
        x.exists \/ (~x.is_file /\ x.size = 0 /\ ~x.readable)}
\* the artifacts found on disk while models are loaded
Files == {MissingFile, VanishingFile, GoodFile}

\* one call of config.loader_func: returns a handle, raises, or returns None
LoaderOutcomes == {"ok", "raise", "none"}
\* a loader capability that returns a handle or raises
Outcomes == {"ok", "raise"}

(***************************************************************************)
(* ModelConfig and ModelLoadResult                                         *)
(***************************************************************************)
ModelConfig(req, rc, ec) ==
    [required |-> req, retry_count |-> rc, expected_checksum |-> ec]
\* the configs registered: required or optional, every retry_count
Configs == {ModelConfig(req, rc, NoChecksum) : req \in BOOLEAN, rc \in 0..MaxRetry}

ModelLoadResult(s, m, e, c) ==
    [success |-> s, model |-> m, error_message |-> e, checksum |-> c]
\* the result of a load that has not returned yet
NoResult == ModelLoadResult(FALSE, NoHandle, "pending", NoChecksum)

VARIABLES
    validate_checksums, \* self.validate_checksums
    model_dir_exists,   \* whether self.model_dir exists on disk
    order,              \* insertion order of the keys of self.model_configs
    model_configs,      \* self.model_configs
    model_status,       \* self.model_status
    models,             \* self.models
    model_errors,       \* self.model_errors
    model_checksums,    \* self.model_checksums
    call,               \* the current (or last) load_all_models call
    tasks,              \* its units of work, one per submitted config
    reloads,            \* the explicit reload requests, each a load of one name
    recording,          \* whether the calls of loader_func and time.sleep are recorded
    payload,            \* the last value a query returned to its caller
    gguf_server,        \* the GGUF model server process and its model_manager
    asr_server          \* the ASR/OCR server process with MODELS and MODEL_ERRORS

loader == <<model_status, models, model_errors, model_checksums>>
registry == <<validate_checksums, order, model_configs>>
vars == <<validate_checksums, model_dir_exists, order, model_configs, model_status,
          models, model_errors, model_checksums, call, tasks, reloads, recording,
          payload, gguf_server, asr_server>>
\* the two serving processes
servers == <<gguf_server, asr_server>>
\* what no step of the loader writes
observer == <<recording, payload, gguf_server, asr_server>>

\* a dict as a function: d[k] = v
Put(d, k, v) == [x \in DOMAIN d \cup {k} |-> IF x = k THEN v ELSE d[x]]
\* d.pop(k, None)
Pop(d, k) == [x \in DOMAIN d \ {k} |-> d[x]]
EmptyDict == [x \in {} |-> None]

(***************************************************************************)
(* Validation                                                              *)
(***************************************************************************)
\* the outcome of a validation: raised, or (is_valid, message, checksum)
Outcome(ra, ok, msg, sum) == [raised |-> ra, valid |-> ok, msg |-> msg, checksum |-> sum]

\* the read permission checked before the size
validate_file_exists_access_first(f) ==
    IF ~f.exists THEN Outcome(FALSE, FALSE, "Model file not found", NoChecksum)
    ELSE IF ~f.is_file THEN Outcome(FALSE, FALSE, "Path is not a file", NoChecksum)
    ELSE IF f.vanishes THEN Outcome(TRUE, FALSE, "FileNotFoundError", NoChecksum)
    ELSE IF ~f.readable
         THEN Outcome(FALSE, FALSE, "Model file is not readable (permission denied)", NoChecksum)
    ELSE IF f.size = 0 THEN Outcome(FALSE, FALSE, "Model file is empty (0 bytes)", NoChecksum)
    ELSE Outcome(FALSE, TRUE, "File validation passed", NoChecksum)

\* lines 145-157: the four checks in their order
validate_file_exists(f) ==
    IF ~f.exists THEN Outcome(FALSE, FALSE, "Model file not found", NoChecksum)
    ELSE IF ~f.is_file THEN Outcome(FALSE, FALSE, "Path is not a file", NoChecksum)
    ELSE IF f.vanishes THEN Outcome(TRUE, FALSE, "FileNotFoundError", NoChecksum)
    ELSE IF f.size = 0 THEN Outcome(FALSE, FALSE, "Model file is empty (0 bytes)", NoChecksum)
    ELSE IF ~f.readable
         THEN Outcome(FALSE, FALSE, "Model file is not readable (permission denied)", NoChecksum)
    ELSE Outcome(FALSE, TRUE, "File validation passed", NoChecksum)

calculate_checksum(f) == f.digest

validate_checksum(f, expected) ==
    LET actual == calculate_checksum(f) IN
    IF Lower(actual) # Lower(expected)
    THEN Outcome(FALSE, FALSE, "Checksum mismatch", actual)
    ELSE Outcome(FALSE, TRUE, "Checksum validation passed", actual)

\* line 246 without self.validate_checksums: an expected checksum is always checked
validate_model_file_always(config, f, vc) ==
    LET e == validate_file_exists(f) IN
    IF e.raised \/ ~e.valid THEN e
    ELSE IF config.expected_checksum # NoChecksum
         THEN LET c == validate_checksum(f, config.expected_checksum) IN
              IF ~c.valid THEN Outcome(FALSE, FALSE, c.msg, NoChecksum)
              ELSE Outcome(FALSE, TRUE, "Validation passed", c.checksum)
    ELSE Outcome(FALSE, TRUE, "Validation passed", NoChecksum)

\* checksum: the digest stored in self.model_checksums, NoChecksum when none is
validate_model_file(config, f, vc) ==
    LET e == validate_file_exists(f) IN
    IF e.raised \/ ~e.valid THEN e
    ELSE IF vc /\ config.expected_checksum # NoChecksum
         THEN LET c == validate_checksum(f, config.expected_checksum) IN
              IF ~c.valid THEN Outcome(FALSE, FALSE, c.msg, NoChecksum)
              ELSE Outcome(FALSE, TRUE, "Validation passed", c.checksum)
    ELSE Outcome(FALSE, TRUE, "Validation passed", NoChecksum)

(***************************************************************************)
(* _load_single_model, one step at a time.  A task is one invocation:      *)
(* pc is "queued" (not started), "validate" (status set to LOADING),       *)
(* "attempt" (in the retry loop, before attempt number `attempt`; for      *)
(* attempt > 0 the task is in its backoff sleep), "hung" (inside a call of  *)
(* the loader capability that never returns), "done" (returned `result`)   *)
(* or "raised" (ended with an escaped exception).                          *)
(***************************************************************************)
Task(n, cfg, id) ==
    [name |-> n, config |-> cfg, id |-> id, pc |-> "queued", attempt |-> 0,
     result |-> NoResult, events |-> <<>>, errors |-> <<>>]
Running(t) == t.pc \in {"validate", "attempt", "hung"}
Finished(t) == t.pc \in {"done", "raised"}
\* in time.sleep between two attempts
Sleeping(t) == t.pc = "attempt" /\ t.attempt > 0

\* the effect of a step: the task and the four maps of the loader
Effect(t, st, ms, er, cs) ==
    [task |-> t, model_status |-> st, models |-> ms, model_errors |-> er,
     model_checksums |-> cs]

\* what an invocation does to its surroundings: "validate" (the call of
\* _validate_model_file; arg is 1 when it returned valid, 0 when it returned
\* invalid, -1 when it raised), "call" (the arg-th call of config.loader_func)
\* and "sleep" (time.sleep of arg milliseconds)
Event(op, arg) == [op |-> op, arg |-> arg]
Record(t, evs) == IF recording THEN [t EXCEPT !.events = @ \o evs] ELSE t

\* the same delay before every retry
wait_time_constant(attempt) == 500

\* line 344: 0.5 * (2 ** attempt) seconds, in milliseconds
wait_time(attempt) == 500 * (2 ^ attempt)

\* the invocation returns r; its local `attempt` is gone
Return(t, r) == [t EXCEPT !.pc = "done", !.attempt = 0, !.result = r]

\* the handle the loader capability returns to task t
Handle(t) == <<t.id, t.name>>
\* str(e) of the exception of a failed call of the loader capability
LoaderError(o) == IF o = "none" THEN "Loader returned None" ELSE "loader error"

\* the call of config.loader_func of this iteration, ending with outcome o:
\* when recorded, `errors` keeps the error text of every failed call
RecordCall(t, o) ==
    IF recording
    THEN [t EXCEPT !.events = Append(@, Event("call", t.attempt + 1)),
                   !.errors = IF o = "ok" THEN @ ELSE Append(@, LoaderError(o))]
    ELSE t

\* every status set to LOADING, not only that of config.name
load_begin_all(t) ==
    Effect([t EXCEPT !.pc = "validate"],
           [n \in DOMAIN model_status |-> LOADING], models, model_errors, model_checksums)

\* line 277: self.model_status[config.name] = ModelStatus.LOADING
load_begin(t) ==
    Effect([t EXCEPT !.pc = "validate"],
           Put(model_status, t.name, LOADING), models, model_errors, model_checksums)

\* the fall-through below the retry loop, taken when range(retry_count) is empty
load_fallthrough(t) ==
    Return(t, ModelLoadResult(FALSE, NoHandle, "Unknown error during loading", NoChecksum))

\* lines 280-289 with the loader called whatever the validation returned
load_validate_lenient(t, f) ==
    LET v == validate_model_file(t.config, f, validate_checksums)
        u == Record(t, <<Event("validate", IF v.raised THEN -1 ELSE IF v.valid THEN 1 ELSE 0)>>)
    IN  IF t.config.retry_count <= 0
        THEN Effect(load_fallthrough(u), model_status, models, model_errors, model_checksums)
        ELSE Effect([u EXCEPT !.pc = "attempt", !.attempt = 0],
                    model_status, models, model_errors, model_checksums)

\* lines 280-289: validation against the file f found at config.path
load_validate(t, f) ==
    LET v == validate_model_file(t.config, f, validate_checksums)
        cs == IF ~v.raised /\ v.valid /\ v.checksum # NoChecksum
              THEN Put(model_checksums, t.name, v.checksum) ELSE model_checksums
        u == Record(t, <<Event("validate", IF v.raised THEN -1 ELSE IF v.valid THEN 1 ELSE 0)>>)
    IN  IF v.raised
        THEN Effect([u EXCEPT !.pc = "raised",
                              !.result = ModelLoadResult(FALSE, NoHandle, v.msg, NoChecksum)],
                    model_status, models, model_errors, cs)
        ELSE IF ~v.valid
        THEN Effect(Return(u, ModelLoadResult(FALSE, NoHandle, v.msg, NoChecksum)),
                    Put(model_status, t.name, FAILED), models,
                    Put(model_errors, t.name, v.msg), cs)
        ELSE IF t.config.retry_count <= 0
        THEN Effect(load_fallthrough(u), model_status, models, model_errors, cs)
        ELSE Effect([u EXCEPT !.pc = "attempt", !.attempt = 0],
                    model_status, models, model_errors, cs)

\* line 311 left out: a success keeps the error recorded before
load_attempt_keep_error(t, o) ==
    LET called == RecordCall(t, o) IN
    IF o = "ok"
    THEN Effect(Return(called, ModelLoadResult(TRUE, Handle(t), None,
                          IF t.name \in DOMAIN model_checksums
                          THEN model_checksums[t.name] ELSE NoChecksum)),
                Put(model_status, t.name, LOADED), Put(models, t.name, Handle(t)),
                model_errors, model_checksums)
    ELSE IF t.attempt = t.config.retry_count - 1
    THEN Effect(Return(called, ModelLoadResult(FALSE, NoHandle, LoaderError(o), NoChecksum)),
                Put(model_status, t.name, FAILED), models,
                Put(model_errors, t.name, LoaderError(o)), model_checksums)
    ELSE Effect([Record(called, <<Event("sleep", wait_time(t.attempt))>>)
                    EXCEPT !.attempt = t.attempt + 1],
                model_status, models, model_errors, model_checksums)

\* line 304 left out: a loader that returns None has loaded the model
load_attempt_accept_none(t, o) ==
    LET called == RecordCall(t, o) IN
    IF o \in {"ok", "none"}
    THEN Effect(Return(called, ModelLoadResult(TRUE, IF o = "ok" THEN Handle(t) ELSE NoHandle,
                          None,
                          IF t.name \in DOMAIN model_checksums
                          THEN model_checksums[t.name] ELSE NoChecksum)),
                Put(model_status, t.name, LOADED),
                Put(models, t.name, IF o = "ok" THEN Handle(t) ELSE NoHandle),
                Pop(model_errors, t.name), model_checksums)
    ELSE IF t.attempt = t.config.retry_count - 1
    THEN Effect(Return(called, ModelLoadResult(FALSE, NoHandle, LoaderError(o), NoChecksum)),
                Put(model_status, t.name, FAILED), models,
                Put(model_errors, t.name, LoaderError(o)), model_checksums)
    ELSE Effect([Record(called, <<Event("sleep", wait_time(t.attempt))>>)
                    EXCEPT !.attempt = t.attempt + 1],
                model_status, models, model_errors, model_checksums)

\* lines 334-335 moved above line 328: every failed call writes FAILED and
\* its error
load_attempt_eager_error(t, o) ==
    LET called == RecordCall(t, o) IN
    IF o = "ok"
    THEN Effect(Return(called, ModelLoadResult(TRUE, Handle(t), None,
                          IF t.name \in DOMAIN model_checksums
                          THEN model_checksums[t.name] ELSE NoChecksum)),
                Put(model_status, t.name, LOADED), Put(models, t.name, Handle(t)),
                Pop(model_errors, t.name), model_checksums)
    ELSE IF t.attempt = t.config.retry_count - 1
    THEN Effect(Return(called, ModelLoadResult(FALSE, NoHandle, LoaderError(o), NoChecksum)),
                Put(model_status, t.name, FAILED), models,
                Put(model_errors, t.name, LoaderError(o)), model_checksums)
    ELSE Effect([Record(called, <<Event("sleep", wait_time(t.attempt))>>)
                    EXCEPT !.attempt = t.attempt + 1],
                Put(model_status, t.name, FAILED), models,
                Put(model_errors, t.name, LoaderError(o)), model_checksums)

\* lines 292-345: one iteration of the retry loop, the loader capability
\* ending with outcome o; an iteration that is not the last ends with the
\* backoff sleep
load_attempt(t, o) ==
    LET called == RecordCall(t, o) IN
    IF o = "ok"
    THEN Effect(Return(called, ModelLoadResult(TRUE, Handle(t), None,
                          IF t.name \in DOMAIN model_checksums
                          THEN model_checksums[t.name] ELSE NoChecksum)),
                Put(model_status, t.name, LOADED), Put(models, t.name, Handle(t)),
                Pop(model_errors, t.name), model_checksums)
    ELSE IF t.attempt = t.config.retry_count - 1
    THEN Effect(Return(called, ModelLoadResult(FALSE, NoHandle, LoaderError(o), NoChecksum)),
                Put(model_status, t.name, FAILED), models,
                Put(model_errors, t.name, LoaderError(o)), model_checksums)
    ELSE Effect([Record(called, <<Event("sleep", wait_time(t.attempt))>>)
                    EXCEPT !.attempt = t.attempt + 1],
                model_status, models, model_errors, model_checksums)

\* the steps a started task can take, with the files FS on disk and the
\* loader capability behaving as one of OS
Steps(t, FS, OS) ==
    IF t.pc = "validate" THEN {load_validate(t, f) : f \in FS}
    ELSE IF t.pc = "attempt" THEN {load_attempt(t, o) : o \in OS}
    ELSE {}

Apply(e) ==
    /\ model_status' = e.model_status
    /\ models' = e.models
    /\ model_errors' = e.model_errors
    /\ model_checksums' = e.model_checksums

(***************************************************************************)
(* Registry                                                                *)
(***************************************************************************)
\* the value of a query that has not been made
NoPayload == [kind |-> "none"]

\* llm_server.py lines 66-77: ModelManager() before the server has started;
\* every entry of self.models is None
GgufModels == {"summariser", "bns_check", "fir_summariser"}
GgufRequired == {"summariser", "fir_summariser"}
GgufDown ==
    [pc |-> "down", models |-> [n \in GgufModels |-> NoHandle], model_errors |-> EmptyDict]

\* asr_ocr.py lines 63-73: MODELS and MODEL_ERRORS before the server has
\* started
AsrModels == {"whisper", "dots_model", "dots_processor"}
AsrRequired == {"whisper"}
AsrDown ==
    [pc |-> "down", MODELS |-> [n \in AsrModels |-> NoHandle], MODEL_ERRORS |-> EmptyDict]

\* ModelLoader(model_dir, validate_checksums) for validate_checksums in VC
InitWith(VC, REC) ==
    /\ validate_checksums \in VC
    /\ recording \in REC
    /\ payload = NoPayload
    /\ gguf_server = GgufDown
    /\ asr_server = AsrDown
    /\ model_dir_exists \in BOOLEAN
    /\ order = <<>>
    /\ model_configs = EmptyDict
    /\ model_status = EmptyDict
    /\ models = EmptyDict
    /\ model_errors = EmptyDict
    /\ model_checksums = EmptyDict
    /\ call = [pc |-> "idle", parallel |-> FALSE, max_workers |-> 0, workers |-> 0,
               results |-> EmptyDict, error |-> "none", missing |-> <<>>,
               mkdir |-> FALSE]
    /\ tasks = <<>>
    /\ reloads = <<>>

\* ModelLoader(model_dir): validate_checksums has its default, True
Init == InitWith({TRUE}, {FALSE})

InCall == call.pc \in {"sequential", "parallel"}

\* the keys kept in a list: a name registered again is a key twice
register_order_list(n) == Append(order, n)

\* the keys of self.model_configs after self.model_configs[name] = config
register_order(n) == IF n \in DOMAIN model_configs THEN order ELSE Append(order, n)

\* register_model(config), config.name = n; the startup thread registers
\* the configs and then calls load_all_models, once
register_model(n, config) ==
    /\ call.pc = "idle"
    /\ \/ n \in DOMAIN model_configs
       \/ Len(order) < Len(NameOrder) /\ n = NameOrder[Len(order) + 1]
    /\ order' = register_order(n)
    /\ model_configs' = Put(model_configs, n, config)
    /\ model_status' = Put(model_status, n, NOT_LOADED)
    /\ UNCHANGED <<validate_checksums, model_dir_exists, models, model_errors,
                   model_checksums, call, tasks, reloads, observer>>

(***************************************************************************)
(* load_all_models                                                         *)
(***************************************************************************)
\* the max_workers argument ignored
pool_size_default(max_workers) == Min(Len(order), DefaultWorkerCap)

\* the size of the worker pool; max_workers = 0 stands for None
pool_size(max_workers) ==
    IF max_workers = 0 THEN Min(Len(order), DefaultWorkerCap) ELSE max_workers

\* the units of work of a call: one per config of self.model_configs.values()
submit_all == [i \in 1..Len(order) |-> Task(order[i], model_configs[order[i]], 0)]

\* lines 379-385 without the mkdir: a missing model directory is a failure
load_all_models_strict(parallel, max_workers) ==
    /\ call.pc = "idle"
    /\ model_dir_exists' = model_dir_exists
    /\ tasks' = IF model_dir_exists THEN submit_all ELSE <<>>
    /\ call' = [pc |-> IF ~model_dir_exists THEN "raised"
                       ELSE IF parallel /\ Len(order) > 1 THEN "parallel" ELSE "sequential",
                parallel |-> parallel,
                max_workers |-> max_workers,
                workers |-> IF parallel /\ Len(order) > 1 THEN pool_size(max_workers) ELSE 0,
                results |-> EmptyDict,
                error |-> IF model_dir_exists THEN "none" ELSE "model_dir_missing",
                missing |-> <<>>, mkdir |-> FALSE]
    /\ UNCHANGED <<registry, loader, reloads, observer>>

\* lines 369-403: the call starts, creating the model directory when it is
\* missing (mkdir: that call of self.model_dir.mkdir, when recorded); in
\* parallel mode every config is submitted
load_all_models(parallel, max_workers) ==
    /\ call.pc = "idle"
    /\ model_dir_exists' = TRUE
    /\ tasks' = submit_all
    /\ call' = [pc |-> IF parallel /\ Len(order) > 1 THEN "parallel" ELSE "sequential",
                parallel |-> parallel,
                max_workers |-> max_workers,
                workers |-> IF parallel /\ Len(order) > 1 THEN pool_size(max_workers) ELSE 0,
                results |-> EmptyDict, error |-> "none", missing |-> <<>>,
                mkdir |-> recording /\ ~model_dir_exists]
    /\ UNCHANGED <<registry, loader, reloads, observer>>

RunningTasks == {i \in 1..Len(tasks) : Running(tasks[i])}
QueuedTasks == {i \in 1..Len(tasks) : tasks[i].pc = "queued"}

\* whether a worker of the pool is free to take a task
worker_free == Cardinality(RunningTasks) < call.workers

\* a free worker of the pool takes the oldest submitted task and starts it
PoolBegin(i) ==
    /\ call.pc = "parallel"
    /\ i \in QueuedTasks
    /\ \A j \in QueuedTasks : i <= j
    /\ worker_free
    /\ LET e == load_begin(tasks[i]) IN
       /\ tasks' = [tasks EXCEPT ![i] = e.task]
       /\ Apply(e)
    /\ UNCHANGED <<registry, model_dir_exists, call, reloads, observer>>

\* time.sleep holding up the whole pool: no worker steps while another sleeps
PoolStep_serial(i, FS, OS) ==
    /\ call.pc = "parallel"
    /\ i \in RunningTasks
    /\ \A k \in RunningTasks \ {i} : ~Sleeping(tasks[k])
    /\ \E e \in Steps(tasks[i], FS, OS) :
       /\ tasks' = [tasks EXCEPT ![i] = e.task]
       /\ Apply(e)
    /\ UNCHANGED <<registry, model_dir_exists, call, reloads, observer>>

\* a worker runs the next step of its task
PoolStep(i, FS, OS) ==
    /\ call.pc = "parallel"
    /\ i \in RunningTasks
    /\ \E e \in Steps(tasks[i], FS, OS) :
       /\ tasks' = [tasks EXCEPT ![i] = e.task]
       /\ Apply(e)
    /\ UNCHANGED <<registry, model_dir_exists, call, reloads, observer>>

\* lines 406-417: results[model_name] of a finished future: its result, or
\* a failure made of the exception that ended it
future_result(t) ==
    IF t.pc = "done" THEN t.result
    ELSE ModelLoadResult(FALSE, NoHandle, t.result.error_message, NoChecksum)

\* the result map once as_completed has yielded every future
collect_results ==
    [n \in {tasks[i].name : i \in 1..Len(tasks)} |->
        future_result(tasks[CHOOSE i \in 1..Len(tasks) : tasks[i].name = n])]

\* the loads started in any order, one not waiting for the other
SeqBegin_unordered(i) ==
    /\ call.pc = "sequential"
    /\ i \in QueuedTasks
    /\ LET e == load_begin(tasks[i]) IN
       /\ tasks' = [tasks EXCEPT ![i] = e.task]
       /\ Apply(e)
    /\ UNCHANGED <<registry, model_dir_exists, call, reloads, observer>>

\* lines 420-421: the calling thread loads the configs one after the other;
\* an exception that escapes a load escapes load_all_models
SeqBegin(i) ==
    /\ call.pc = "sequential"
    /\ i \in QueuedTasks
    /\ \A j \in 1..Len(tasks) : j < i => Finished(tasks[j])
    /\ LET e == load_begin(tasks[i]) IN
       /\ tasks' = [tasks EXCEPT ![i] = e.task]
       /\ Apply(e)
    /\ UNCHANGED <<registry, model_dir_exists, call, reloads, observer>>

SeqStep(i, FS, OS) ==
    /\ call.pc = "sequential"
    /\ i \in RunningTasks
    /\ \E e \in Steps(tasks[i], FS, OS) :
       /\ tasks' = [tasks EXCEPT ![i] = e.task]
       /\ Apply(e)
       /\ call' = IF e.task.pc = "done"
                  THEN [call EXCEPT !.results = Put(@, e.task.name, e.task.result)]
                  ELSE IF e.task.pc = "raised"
                  THEN [call EXCEPT !.pc = "raised", !.error = "escaped"]
                  ELSE call
    /\ UNCHANGED <<registry, model_dir_exists, reloads, observer>>

\* results.get(name, ModelLoadResult(False)).success
Succeeded(results, n) == n \in DOMAIN results /\ results[n].success

\* lines 475-478: the required models without a successful result, in
\* registration order
missing_required_models(results) ==
    LET Missing(n) == model_configs[n].required /\ ~Succeeded(results, n)
    IN  SelectSeq(order, Missing)

\* the two checks in the other order
validate_required_models_swapped(results) ==
    IF ~\E n \in DOMAIN results : results[n].success THEN "no_models_loaded"
    ELSE IF missing_required_models(results) # <<>> THEN "critical_models_failed"
    ELSE "none"

\* the check of lines 488-491 left out
validate_required_models_only(results) ==
    IF missing_required_models(results) # <<>> THEN "critical_models_failed" ELSE "none"

\* _validate_required_models: the failure raised, "none" when none is
validate_required_models(results) ==
    IF missing_required_models(results) # <<>> THEN "critical_models_failed"
    ELSE IF ~\E n \in DOMAIN results : results[n].success THEN "no_models_loaded"
    ELSE "none"

\* the gating run as soon as one load has completed
gate_ready_any == \E i \in 1..Len(tasks) : Finished(tasks[i])

\* lines 406-430: the pool has run every future and as_completed has yielded
\* them all (parallel), or the loop has ended (sequential)
gate_ready == \A i \in 1..Len(tasks) : Finished(tasks[i])

\* the gating raises or the results are returned
Gate ==
    /\ InCall
    /\ gate_ready
    /\ LET results == IF call.pc = "parallel" THEN collect_results ELSE call.results
           err == validate_required_models(results)
       IN  call' = [call EXCEPT !.pc = IF err = "none" THEN "returned" ELSE "raised",
                                !.results = results,
                                !.error = err,
                                !.missing = IF err = "critical_models_failed"
                                            THEN missing_required_models(results)
                                            ELSE <<>>]
    /\ UNCHANGED <<registry, loader, model_dir_exists, tasks, reloads, observer>>

(***************************************************************************)
(* An explicit reload of one model: another thread calls                   *)
(* _load_single_model with the registered config of the name.              *)
(***************************************************************************)
\* a reload thread that has returned or raised; its result goes to the
\* requester and is not kept by the loader
Exited == [Task("", ModelConfig(FALSE, 0, NoChecksum), 0) EXCEPT !.pc = "done"]

ReloadBegin(n) ==
    /\ n \in DOMAIN model_configs
    /\ Len(reloads) < MaxReloads
    /\ LET e == load_begin(Task(n, model_configs[n], Len(reloads) + 1)) IN
       /\ reloads' = Append(reloads, e.task)
       /\ Apply(e)
    /\ UNCHANGED <<registry, model_dir_exists, call, tasks, observer>>

ReloadStep(r, FS, OS) ==
    /\ r \in 1..Len(reloads)
    /\ \E e \in Steps(reloads[r], FS, OS) :
       /\ reloads' = [reloads EXCEPT ![r] = IF Finished(e.task) THEN Exited ELSE e.task]
       /\ Apply(e)
    /\ UNCHANGED <<registry, model_dir_exists, call, tasks, observer>>

(***************************************************************************)
(* Health                                                                  *)
(***************************************************************************)
\* the status not consulted: a stored handle counts as loaded
is_model_loaded_handle(n) == n \in DOMAIN models /\ models[n] # NoHandle

is_model_loaded(n) ==
    /\ n \in DOMAIN models
    /\ models[n] # NoHandle
    /\ n \in DOMAIN model_status
    /\ model_status[n] = LOADED

\* lines 540-546
models_status == [n \in DOMAIN model_configs |-> is_model_loaded(n)]
loaded_count == Cardinality({n \in DOMAIN models_status : models_status[n]})
total_count == Cardinality(DOMAIN models_status)

\* lines 549-557, in registration order
required_models ==
    LET Required(n) == model_configs[n].required IN SelectSeq(order, Required)
missing_required ==
    LET NotLoaded(n) == ~models_status[n] IN SelectSeq(required_models, NotLoaded)

\* the degraded branch tested before the missing-required branch
health_verdict_degraded_first(lc, tc, mr) ==
    IF lc = tc THEN "healthy"
    ELSE IF lc > 0 THEN "degraded"
    ELSE "unhealthy"

\* the degraded branch taken with no model loaded
health_verdict_no_count(lc, tc, mr) ==
    IF lc = tc THEN "healthy"
    ELSE IF mr # <<>> THEN "unhealthy"
    ELSE "degraded"

\* lines 559-576: the verdict from loaded_count, total_count, missing_required
health_verdict(lc, tc, mr) ==
    IF lc = tc THEN "healthy"
    ELSE IF mr # <<>> THEN "unhealthy"
    ELSE IF lc > 0 THEN "degraded"
    ELSE "unhealthy"

\* a dict handed to a caller: `shared` tells whether it is the loader's own
\* object, so that a write of the caller is a write of the loader's map
\* self.model_errors itself, not a copy
dict_alias(d) == [shared |-> TRUE, items |-> d]

\* dict(d): a new object with the items of d
dict_copy(d) == [shared |-> FALSE, items |-> d]

\* models_loaded is the dict built at lines 540-543, a new object
get_health_status ==
    [status |-> health_verdict(loaded_count, total_count, missing_required),
     missing |-> missing_required,
     models_loaded |-> models_status,
     loaded_count |-> loaded_count,
     total_count |-> total_count,
     errors |-> dict_copy(model_errors)]

\* self.models.get(n) returned as it is: no exception for an unknown name or
\* for a name without a handle
get_model_unchecked(n) ==
    [raised |-> "none",
     model |-> IF n \in DOMAIN models THEN models[n] ELSE NoHandle,
     status |-> IF n \in DOMAIN model_status THEN model_status[n] ELSE NOT_LOADED,
     error_detail |-> None]

\* get_model(n): the handle returned, or the exception raised with the status
\* and the error detail of its message
get_model(n) ==
    IF n \notin DOMAIN model_configs
    THEN [raised |-> "ValueError", model |-> NoHandle, status |-> NOT_LOADED,
          error_detail |-> None]
    ELSE IF n \notin DOMAIN models \/ models[n] = NoHandle
    THEN [raised |-> "RuntimeError", model |-> NoHandle,
          status |-> IF n \in DOMAIN model_status THEN model_status[n] ELSE NOT_LOADED,
          error_detail |-> IF n \in DOMAIN model_errors THEN model_errors[n]
                           ELSE "Unknown error"]
    ELSE [raised |-> "none", model |-> models[n], status |-> model_status[n],
          error_detail |-> None]

\* get_model_info(n) of a registered name
get_model_info(n) ==
    [name |-> n,
     required |-> model_configs[n].required,
     status |-> IF n \in DOMAIN model_status THEN model_status[n] ELSE NOT_LOADED,
     loaded |-> is_model_loaded(n),
     error |-> IF n \in DOMAIN model_errors THEN model_errors[n] ELSE None,
     checksum |-> IF n \in DOMAIN model_checksums THEN model_checksums[n] ELSE NoChecksum]

(***************************************************************************)
(* The queries, made by any thread at any time; the value returned is kept *)
(* by the caller in `payload`.                                             *)
(***************************************************************************)
Query(kind, n, value) ==
    /\ payload' = [name |-> n, kind |-> kind, value |-> value]
    /\ UNCHANGED <<registry, loader, model_dir_exists, call, tasks, reloads, recording,
                   servers>>

GetHealthStatus == Query("health", "", get_health_status)

GetModelInfo(n) ==
    IF n \in DOMAIN model_configs
    THEN Query("info", n, get_model_info(n))
    ELSE Query("info", n, [raised |-> "ValueError"])

IsModelLoaded(n) == Query("loaded", n, [loaded |-> is_model_loaded(n)])

GetModel(n) == Query("model", n, get_model(n))

\* _validate_file_exists(path) called for the path in state f: it returns its
\* verdict to the caller and writes nothing
ValidateFileExists(f) == Query("exists", "", [file |-> f, outcome |-> validate_file_exists(f)])

\* the caller of get_health_status writes into the payload it was given:
\* payload["errors"][n] = "edited" and payload["models_loaded"][n] = True
CallerWrites(n) ==
    /\ payload.kind = "health"
    /\ LET errors == payload.value.errors IN
       /\ payload' = [payload EXCEPT
                          !.value.errors.items = Put(@, n, "edited"),
                          !.value.models_loaded = Put(@, n, TRUE)]
       /\ model_errors' = IF errors.shared THEN Put(model_errors, n, "edited")
                          ELSE model_errors
    /\ UNCHANGED <<registry, model_status, models, model_checksums, model_dir_exists,
                   call, tasks, reloads, recording, servers>>

\* the startup thread and its worker pool, registering configs of CS under
\* the names NS, with the files FS on disk and the loader outcomes OS
BootWith(NS, CS, FS, OS) ==
    \/ \E n \in NS, c \in CS : register_model(n, c)
    \/ \E p \in BOOLEAN, w \in 0..MaxWorkersArg : load_all_models(p, w)
    \/ \E i \in 1..Len(tasks) : PoolBegin(i)
    \/ \E i \in 1..Len(tasks) : PoolStep(i, FS, OS)
    \/ \E i \in 1..Len(tasks) : SeqBegin(i)
    \/ \E i \in 1..Len(tasks) : SeqStep(i, FS, OS)
    \/ Gate

\* startup: up to three models of any config, no reload
Next == BootWith(Names, Configs, Files, Outcomes)

Spec == Init /\ [][Next]_vars

\* startup with artifacts that do not change while they are validated
StableFiles == {MissingFile, GoodFile}

NextStableFiles == BootWith(Names, Configs, StableFiles, Outcomes)

SpecStableFiles == Init /\ [][NextStableFiles]_vars

\* startup of up to two models with the default retry_count, and explicit
\* reloads at any time
ReloadNames == {"A", "B"}
ReloadConfigs == {ModelConfig(req, 1, NoChecksum) : req \in BOOLEAN}

NextReload ==
    \/ BootWith(ReloadNames, ReloadConfigs, Files, Outcomes)
    \/ \E n \in Names : ReloadBegin(n)
    \/ \E r \in 1..Len(reloads) : ReloadStep(r, Files, Outcomes)

SpecReload == Init /\ [][NextReload]_vars

\* startup, in an existing model directory, of up to two optional models
\* with or without an expected checksum, every kind of artifact and every
\* loader capability that returns a handle or raises, validate_checksums set
\* or not; the calls of _validate_model_file, loader_func and time.sleep are
\* recorded
RecordedConfigs ==
    {ModelConfig(FALSE, rc, ec) : rc \in 0..MaxRecordedRetry, ec \in ExpectedChecksums}

InitRecorded == InitWith(BOOLEAN, {TRUE}) /\ model_dir_exists

NextRecorded == BootWith(ReloadNames, RecordedConfigs, AllFiles, Outcomes)

SpecRecorded == InitRecorded /\ [][NextRecorded]_vars

\* startup of up to two optional models whose artifact is missing, removed
\* while it is validated or good, and whose loader capability returns a
\* handle, raises or returns None at each call; the calls of loader_func and
\* the error of every failed call are recorded
LoaderCallConfigs ==
    {ModelConfig(FALSE, rc, NoChecksum) : rc \in 0..MaxRecordedRetry}

InitLoaderCalls == InitWith({TRUE}, {TRUE}) /\ model_dir_exists

NextLoaderCalls == BootWith(ReloadNames, LoaderCallConfigs, Files, LoaderOutcomes)

SpecLoaderCalls == InitLoaderCalls /\ [][NextLoaderCalls]_vars

\* startup of up to two models with or without a model directory on disk,
\* the call of mkdir recorded
InitModelDir == InitWith({TRUE}, {TRUE})

NextModelDir == BootWith(ReloadNames, ReloadConfigs, StableFiles, Outcomes)

SpecModelDir == InitModelDir /\ [][NextModelDir]_vars

\* configs with or without an expected checksum
ChecksumConfigs ==
    {ModelConfig(req, 1, ec) : req \in BOOLEAN, ec \in ExpectedChecksums}

\* startup of up to two models with or without an expected checksum, their
\* artifacts in any state, and calls of _validate_file_exists for any path
NextValidation ==
    \/ BootWith(ReloadNames, ChecksumConfigs, FileSpace, Outcomes)
    \/ \E f \in FileSpace : ValidateFileExists(f)

SpecValidation == Init /\ [][NextValidation]_vars

\* startup and explicit reloads of up to two optional models with or without
\* an expected checksum, whose artifacts may be replaced between two loads
ChecksumFiles == {GoodFile, TamperedFile}
\* a loader capability that returns a handle at every call
Loads == {"ok"}
\* optional models with or without an expected checksum
OptionalChecksumConfigs == {ModelConfig(FALSE, 1, ec) : ec \in ExpectedChecksums}

NextReloadChecksum ==
    \/ BootWith(ReloadNames, OptionalChecksumConfigs, ChecksumFiles, Loads)
    \/ \E n \in Names : ReloadBegin(n)
    \/ \E r \in 1..Len(reloads) : ReloadStep(r, ChecksumFiles, Loads)

SpecReloadChecksum == Init /\ [][NextReloadChecksum]_vars

\* startup of up to two models, queried at any time by a caller that may
\* write into the health payload it was given
NextQuery ==
    \/ BootWith(ReloadNames, ReloadConfigs, StableFiles, Outcomes)
    \/ GetHealthStatus
    \/ \E n \in Names : GetModelInfo(n)
    \/ \E n \in Names : IsModelLoaded(n)
    \/ \E n \in Names : GetModel(n)
    \/ \E n \in Names : CallerWrites(n)

SpecQuery == Init /\ [][NextQuery]_vars

(***************************************************************************)
(* The health verdict of the GGUF model server ("gguf model server/        *)
(* llm_server.py", health_check) next to that of ModelLoader, both applied *)
(* to the same loaded flags and required set.                              *)
(***************************************************************************)
Count(models_loaded) == Cardinality({n \in DOMAIN models_loaded : models_loaded[n]})

\* the required models not asked about: some model loaded means degraded
gguf_health_verdict_no_required(models_loaded, required) ==
    IF Count(models_loaded) = Cardinality(DOMAIN models_loaded) THEN "healthy"
    ELSE IF Count(models_loaded) > 0 THEN "degraded"
    ELSE "unhealthy"

\* llm_server.py lines 397-415: models_status.get(m, False) for m in
\* required_models is asked only when some model is loaded
gguf_health_verdict(models_loaded, required) ==
    LET missing == {m \in required : ~(m \in DOMAIN models_loaded /\ models_loaded[m])}
    IN  IF Count(models_loaded) = Cardinality(DOMAIN models_loaded) THEN "healthy"
        ELSE IF Count(models_loaded) > 0
             THEN IF missing # {} THEN "unhealthy" ELSE "degraded"
        ELSE "unhealthy"

\* model_loader.py lines 545-557 for the registry whose models have the
\* loaded flags models_loaded and whose required configs are `required`
loader_health_verdict(models_loaded, required) ==
    LET Missing(n) == n \in required /\ n \in DOMAIN models_loaded /\ ~models_loaded[n]
    IN  health_verdict(Count(models_loaded), Cardinality(DOMAIN models_loaded),
                       SelectSeq(NameOrder, Missing))

\* both verdicts computed for one table of loaded flags and one required set
CompareVerdicts(models_loaded, required) ==
    Query("verdicts", "", [required |-> required,
                           loader |-> loader_health_verdict(models_loaded, required),
                           models_loaded |-> models_loaded,
                           gguf |-> gguf_health_verdict(models_loaded, required)])

\* every table of loaded flags over up to three models
LoadedFlags == UNION {[S -> BOOLEAN] : S \in SUBSET Names}

NextVerdict ==
    \E models_loaded \in LoadedFlags :
        \E required \in SUBSET DOMAIN models_loaded :
            CompareVerdicts(models_loaded, required)

SpecVerdict == Init /\ [][NextVerdict]_vars

(***************************************************************************)
(* The two serving processes: the GGUF model server ("gguf model server/   *)
(* llm_server.py") and the ASR/OCR server ("asr ocr model server/          *)
(* asr_ocr.py").  A process is "down" before its startup handler has run,  *)
(* "ready" once the handler has returned (the server accepts requests) and *)
(* "aborted" when the handler has raised (the application startup fails    *)
(* and the process exits).                                                 *)
(***************************************************************************)
\* the state of CONFIG["model_dir"] when the GGUF server starts
GgufDirs == {"ok", "missing", "not_a_directory"}
\* one model's _load_single_model: True with the model stored ("ok"), False
\* for a file that fails validation ("invalid") or a Llama(...) call that
\* raises ("raise")
ServerLoads == {"ok", "invalid", "raise"}
ServerError(o) == IF o = "invalid" THEN "Model file not found" ELSE "loader error"

\* llm_server.py lines 156-234: load_models with the model directory in
\* state dir and the load of model n ending as o[n]; `raised` is the
\* exception load_models ends with, "none" when it returns
gguf_load_models(dir, o) ==
    LET load_results == [n \in GgufModels |-> o[n] = "ok"]
        failed == {n \in GgufModels : ~load_results[n]}
        missing == {m \in GgufRequired : ~load_results[m]}
    IN  IF dir # "ok"
        THEN [raised |-> "model_dir", models |-> gguf_server.models,
              model_errors |-> gguf_server.model_errors]
        ELSE [raised |-> IF missing # {} THEN "critical_models_failed"
                         ELSE IF Count(load_results) = 0 THEN "no_models_loaded"
                         ELSE "none",
              models |-> [n \in GgufModels |-> IF load_results[n] THEN <<0, n>> ELSE NoHandle],
              model_errors |-> [n \in failed |-> ServerError(o[n])]]

\* llm_server.py lines 339-347: startup_event logs what load_models raises and
\* raises it again
GgufStartup(dir, o) ==
    /\ gguf_server.pc = "down"
    /\ LET r == gguf_load_models(dir, o) IN
       gguf_server' = [pc |-> IF r.raised = "none" THEN "ready" ELSE "aborted",
                       models |-> r.models, model_errors |-> r.model_errors]
    /\ UNCHANGED <<registry, loader, model_dir_exists, call, tasks, reloads, recording,
                   payload, asr_server>>

\* asr_ocr.py lines 293-365: startup_event with load_whisper_model ending as
\* w and load_dots_ocr_model as d; the handler logs the failures and returns
AsrStartup(w, d) ==
    /\ asr_server.pc = "down"
    /\ asr_server' =
          [pc |-> "ready",
           MODELS |-> [n \in AsrModels |->
                         IF n = "whisper"
                         THEN IF w = "ok" THEN <<0, n>> ELSE NoHandle
                         ELSE IF d = "ok" THEN <<0, n>> ELSE NoHandle],
           MODEL_ERRORS |->
               [n \in {x \in {"whisper"} : w # "ok"} \cup {x \in {"dots_ocr"} : d # "ok"} |->
                   ServerError(IF n = "whisper" THEN w ELSE d)]]
    /\ UNCHANGED <<registry, loader, model_dir_exists, call, tasks, reloads, recording,
                   payload, gguf_server>>

\* an HTTP response: its status code and detail, and whether the model was
\* called for the request
Response(code, detail, ran) == [detail |-> detail, ran |-> ran, status_code |-> code]

\* llm_server.py lines 254-305: ModelManager.inference; `raised` is the
\* exception it ends with, "none" when it returns the generated text
manager_inference(model_name, prompt_ok, run) ==
    IF gguf_server.models[model_name] = NoHandle
    THEN [raised |-> "RuntimeError", detail |-> "Model is not available", ran |-> FALSE]
    ELSE IF ~prompt_ok
    THEN [raised |-> "ValueError", detail |-> "Prompt must be a non-empty string",
          ran |-> FALSE]
    ELSE IF run = "error"
    THEN [raised |-> "RuntimeError", detail |-> "Inference failed unexpectedly",
          ran |-> TRUE]
    ELSE [raised |-> "none", detail |-> "text", ran |-> TRUE]

\* llm_server.py lines 349-384: the handler of POST /inference.  The
\* HTTPException of lines 360-363 is raised inside the try; it is no
\* RuntimeError, so the handler `except Exception` of line 382 catches it and
\* raises HTTPException(500, "Internal server error")
inference(model_name, prompt_ok, run) ==
    IF model_name \notin DOMAIN gguf_server.models
    THEN Response(500, "Internal server error", FALSE)
    ELSE LET r == manager_inference(model_name, prompt_ok, run) IN
         IF r.raised = "none" THEN Response(200, r.detail, r.ran)
         ELSE IF r.raised = "RuntimeError" THEN Response(500, r.detail, r.ran)
         ELSE Response(500, "Internal server error", r.ran)

\* a POST /inference request served by the started GGUF server
Inference(model_name, prompt_ok, run) ==
    /\ gguf_server.pc = "ready"
    /\ Query("inference", model_name, inference(model_name, prompt_ok, run))

\* the model names a client asks for
RequestedModels == GgufModels \cup {"nonexistent_model"}

\* the two servers start, each with any outcome of its loads, and the GGUF
\* server answers inference requests
NextServers ==
    \/ \E dir \in GgufDirs, o \in [GgufModels -> ServerLoads] : GgufStartup(dir, o)
    \/ \E w, d \in ServerLoads : AsrStartup(w, d)
    \/ \E n \in RequestedModels, prompt_ok \in BOOLEAN, run \in {"text", "error"} :
          Inference(n, prompt_ok, run)

SpecServers == Init /\ [][NextServers]_vars

(***************************************************************************)
(* Progress.  Every thread that can run does run: the pool starts a queued *)
(* task when a worker is free, a worker and the calling thread take the    *)
(* next step of their load, and the gating runs once the loads are over.   *)
(***************************************************************************)
\* line 300: the call of config.loader_func of task i never returns; no
\* other loader capability of the call hangs
Hang(i) ==
    /\ InCall
    /\ i \in 1..Len(tasks)
    /\ tasks[i].pc = "attempt"
    /\ \A j \in 1..Len(tasks) : tasks[j].pc # "hung"
    /\ tasks' = [tasks EXCEPT ![i].pc = "hung"]
    /\ UNCHANGED <<registry, loader, model_dir_exists, call, reloads, observer>>

\* optional models loaded in no attempt or in one
OptionalConfigs == {ModelConfig(FALSE, rc, NoChecksum) : rc \in 0..1}

Progress(FS, OS) ==
    /\ WF_vars(\E i \in 1..Len(tasks) : PoolBegin(i))
    /\ \A i \in 1..Len(NameOrder) : WF_vars(PoolStep(i, FS, OS))
    /\ WF_vars(\E i \in 1..Len(tasks) : SeqBegin(i))
    /\ WF_vars(\E i \in 1..Len(tasks) : SeqStep(i, FS, OS))
    /\ WF_vars(Gate)

\* startup of up to three optional models whose artifacts do not change while
\* they are validated, every call of a loader capability returning or raising
NextProgress == BootWith(Names, OptionalConfigs, StableFiles, Outcomes)

SpecProgress == Init /\ [][NextProgress]_vars /\ Progress(StableFiles, Outcomes)

\* the same startup where the loader capability of one model may hang
NextHang ==
    \/ BootWith(Names, OptionalConfigs, StableFiles, Outcomes)
    \/ \E i \in 1..Len(tasks) : Hang(i)

SpecHang == Init /\ [][NextHang]_vars /\ Progress(StableFiles, Outcomes)

(***************************************************************************)
(* Properties                                                              *)
(***************************************************************************)
SeqToSet(q) == {q[i] : i \in 1..Len(q)}
Registered == DOMAIN model_configs
\* load_all_models has returned or raised
CallEnded == call.pc \in {"returned", "raised"}
\* ... and its gating has run: every individual load had completed
Gated == CallEnded /\ call.error # "escaped"
\* the required models without a successful result
FailedRequired ==
    {n \in Registered : model_configs[n].required /\ ~Succeeded(call.results, n)}
SucceededModels == {n \in DOMAIN call.results : call.results[n].success}
\* status LOADED and a handle stored
Loaded(n) == model_status[n] = LOADED /\ n \in DOMAIN models
LoadedModels == {n \in Registered : Loaded(n)}

\* C1: whenever load_all_models has returned without raising, every
\* registered model has status LOADED or FAILED.
C1_StatusFinalOnReturn ==
    call.pc = "returned" =>
        \A n \in Registered : model_status[n] \in {LOADED, FAILED}

\* C2: once every load of the call has completed, an unsuccessful result of
\* a required model makes load_all_models raise the critical-models failure,
\* whose message names exactly the required models with an unsuccessful
\* result, each once, also when no model at all succeeded.
C2_RequiredFailureRaises ==
    Gated /\ FailedRequired # {} =>
        /\ call.pc = "raised"
        /\ call.error = "critical_models_failed"
        /\ SeqToSet(call.missing) = FailedRequired
        /\ Len(call.missing) = Cardinality(FailedRequired)

C2_Witness ==
    /\ call.error = "critical_models_failed"
    /\ Len(call.missing) = 2
    /\ \E n \in Registered : ~model_configs[n].required /\ ~Succeeded(call.results, n)

\* C3: when load_all_models has ended with no required model failed and no
\* model succeeded, it has raised, and not the critical-models failure: the
\* gating raises the no-models-loaded failure.
C3_NoModelsRaises ==
    CallEnded /\ FailedRequired = {} /\ SucceededModels = {} =>
        /\ call.pc = "raised"
        /\ call.error # "critical_models_failed"
        /\ Gated => call.error = "no_models_loaded"

C3_Witness ==
    /\ call.error = "no_models_loaded"
    /\ Len(order) >= 2
    /\ \A n \in Registered : model_status[n] = FAILED

\* C4: when load_all_models has ended with every required model succeeded
\* and at least one model succeeded, it has returned normally, with one
\* result for every registered name, successful exactly for the models that
\* are loaded.
C4_ReturnsWhenRequiredLoaded ==
    CallEnded /\ FailedRequired = {} /\ SucceededModels # {} =>
        /\ call.pc = "returned"
        /\ DOMAIN call.results = Registered
        /\ \A n \in Registered : call.results[n].success <=> Loaded(n)

\* C5: the health verdict is "unhealthy" whenever a required model is not
\* loaded, whatever the other models are.
C5_RequiredMissingUnhealthy ==
    (\E n \in Registered : model_configs[n].required /\ ~Loaded(n)) =>
        get_health_status.status = "unhealthy"

C5_Witness ==
    /\ \E n \in Registered : model_configs[n].required /\ ~Loaded(n)
    /\ Cardinality(LoadedModels) >= 2
    /\ get_health_status.status = "unhealthy"

\* C6: the health verdict is "healthy" if and only if every registered model
\* is loaded, a model being loaded when its status is LOADED and a handle is
\* stored for it; this holds in the middle of a load or reload too.
C6_HealthyIffAllLoaded ==
    get_health_status.status = "healthy" <=> LoadedModels = Registered

\* a reload in flight on a model whose handle is stored: not healthy
C6_Witness ==
    /\ \E r \in 1..Len(reloads) :
          /\ Running(reloads[r])
          /\ reloads[r].name \in DOMAIN models
          /\ model_status[reloads[r].name] = LOADING
    /\ DOMAIN models = Registered
    /\ Cardinality(Registered) = 2
    /\ get_health_status.status # "healthy"

\* C7: the health verdict is "degraded" exactly when some model is loaded,
\* not all are and no required model is missing, and it is "unhealthy" when
\* not all models are loaded and none is.
C7_DegradedExactly ==
    /\ get_health_status.status = "degraded" <=>
          /\ LoadedModels # {}
          /\ LoadedModels # Registered
          /\ \A n \in Registered : model_configs[n].required => Loaded(n)
    /\ LoadedModels = {} /\ Registered # {} => get_health_status.status = "unhealthy"

C7_Witness ==
    /\ get_health_status.status = "degraded"
    /\ \E n \in Registered : model_configs[n].required
    /\ \E n \in Registered : model_status[n] = FAILED

\* C8: in parallel mode at most W tasks are inside their load (validation,
\* loader call or backoff sleep) at any instant, W being max_workers when
\* given and min(N, 3) otherwise.
C8_WorkerCap ==
    call.pc = "parallel" =>
        Cardinality(RunningTasks) <=
            IF call.max_workers # 0 THEN call.max_workers
            ELSE Min(Cardinality(Registered), DefaultWorkerCap)

\* the cap holds a submitted task back
C8_Witness ==
    /\ call.pc = "parallel"
    /\ call.max_workers = 2
    /\ Cardinality(RunningTasks) = 2
    /\ QueuedTasks # {}

\* C9: within a call each registered name is exactly one unit of work, so
\* no two tasks, running or not, load the same name.
C9_OneTaskPerName ==
    call.pc # "idle" =>
        /\ \A i, j \in 1..Len(tasks) : tasks[i].name = tasks[j].name => i = j
        /\ {tasks[i].name : i \in 1..Len(tasks)} = Registered

C9_Witness ==
    /\ call.pc = "parallel"
    /\ Cardinality(RunningTasks) = 3

\* the loads of name n in flight, of the worker pool and of reload requests
InFlight(n) ==
    Cardinality({i \in 1..Len(tasks) : Running(tasks[i]) /\ tasks[i].name = n})
    + Cardinality({r \in 1..Len(reloads) : Running(reloads[r]) /\ reloads[r].name = n})

\* C10: at any time at most one load of a given name is in flight, over all
\* interleavings of load_all_models and explicit reload requests.
C10_OneLoadInFlight == \A n \in Names : InFlight(n) <= 1

(***************************************************************************)
(* Properties of one run of _load_single_model, read off its record.       *)
(***************************************************************************)
\* the calls of the loader capability a run has made so far
Calls(t) == Cardinality({j \in 1..Len(t.events) : t.events[j].op = "call"})
\* the backoff sleeps of a run, in the order they were made
Sleeps(t) == LET IsSleep(e) == e.op = "sleep" IN SelectSeq(t.events, IsSleep)
\* the run has called _validate_model_file and it returned v (1 valid, 0 invalid)
Validated(t, v) == Len(t.events) > 0 /\ t.events[1] = Event("validate", v)
\* the reasons _validate_model_file gives for an invalid artifact
ValidationReasons ==
    {"Model file not found", "Path is not a file", "Model file is empty (0 bytes)",
     "Model file is not readable (permission denied)", "Checksum mismatch"}

\* C11: a run that has returned, whose validation passed, has called the
\* loader capability exactly retry_count times and left the status FAILED
\* when every call failed, and exactly k times when the k-th call succeeded.
C11_RetryCount ==
    \A i \in 1..Len(tasks) :
        LET t == tasks[i] IN
        recording /\ t.pc = "done" /\ Validated(t, 1) =>
            IF t.result.success
            THEN /\ Calls(t) <= t.config.retry_count
                 /\ t.events[Len(t.events)] = Event("call", Calls(t))
            ELSE /\ Calls(t) = t.config.retry_count
                 /\ model_status[t.name] = FAILED

\* C12: the k-th backoff sleep of a run lasts 0.5s * 2^(k-1), each sleep
\* directly follows a failed call and directly precedes the next call, every
\* call but the first directly follows a sleep, and a run that has ended has
\* slept once less than it has called: not after its last call, failed or
\* successful.
C12_Backoff ==
    \A i \in 1..Len(tasks) :
        LET t == tasks[i]
            ev == t.events
        IN  recording =>
            /\ \A k \in 1..Len(Sleeps(t)) :
                  Sleeps(t)[k].arg = IF k = 1 THEN 500 ELSE 2 * Sleeps(t)[k - 1].arg
            /\ \A j \in 1..Len(ev) :
                  /\ ev[j].op = "sleep" =>
                        /\ j > 1 /\ ev[j - 1].op = "call"
                        /\ j < Len(ev) => ev[j + 1].op = "call"
                  /\ ev[j].op = "call" /\ ev[j].arg > 1 =>
                        ev[j - 1].op = "sleep" /\ ev[j - 2] = Event("call", ev[j].arg - 1)
            /\ Finished(t) /\ Calls(t) > 0 =>
                  /\ Len(Sleeps(t)) = Calls(t) - 1
                  /\ ev[Len(ev)].op = "call"

\* a run that failed three times, with sleeps of 0.5s and 1s, and a run that
\* succeeded on its second call
C12_Witness ==
    /\ recording
    /\ \E i \in 1..Len(tasks) :
          /\ tasks[i].pc = "done" /\ ~tasks[i].result.success
          /\ Calls(tasks[i]) = 3
          /\ Len(Sleeps(tasks[i])) = 2
    /\ \E i \in 1..Len(tasks) :
          /\ tasks[i].result.success
          /\ Calls(tasks[i]) = 2

\* C13: a run validates its artifact exactly once, before any call of the
\* loader capability; when the validation returns invalid the run returns
\* without any call, the status is FAILED, and the reason of the validation
\* is the recorded error and the error message of the result.
C13_ValidationOnce ==
    \A i \in 1..Len(tasks) :
        LET t == tasks[i]
            ev == t.events
        IN  recording =>
            /\ t.pc \in {"queued", "validate"} <=> ev = <<>>
            /\ \A j \in 1..Len(ev) : ev[j].op = "validate" <=> j = 1
            /\ Validated(t, 0) =>
                  /\ Calls(t) = 0
                  /\ t.pc = "done"
                  /\ ~t.result.success
                  /\ t.result.error_message \in ValidationReasons
                  /\ model_status[t.name] = FAILED
                  /\ t.name \in DOMAIN model_errors
                  /\ model_errors[t.name] = t.result.error_message

\* one run stopped by its validation, another one validated and called
C13_Witness ==
    /\ recording
    /\ \E i \in 1..Len(tasks) :
          /\ Validated(tasks[i], 0)
          /\ tasks[i].config.retry_count > 1
          /\ model_errors[tasks[i].name] = "Model file is empty (0 bytes)"
    /\ \E i \in 1..Len(tasks) : Validated(tasks[i], 1) /\ Calls(tasks[i]) = 2

\* C14: a model whose load ended with a checksum mismatch has an
\* unsuccessful result without a handle, has status FAILED, and get_model
\* raises for it as long as the mismatch is its recorded error.
C14_MismatchNoHandle ==
    /\ \A i \in 1..Len(tasks) :
          tasks[i].result.error_message = "Checksum mismatch" =>
              ~tasks[i].result.success /\ tasks[i].result.model = NoHandle
    /\ \A n \in Registered :
          n \in DOMAIN model_errors /\ model_errors[n] = "Checksum mismatch"
          /\ model_status[n] = FAILED =>
              get_model(n).raised # "none"

\* C15: a model whose status is LOADED has no recorded error, whatever failed
\* before the load that succeeded: its name is absent from the error map,
\* get_model_info gives no error and the health payload's errors do not name it.
C15_SuccessClearsError ==
    \A n \in Registered :
        model_status[n] = LOADED =>
            /\ n \notin DOMAIN model_errors
            /\ get_model_info(n).error = None
            /\ n \notin DOMAIN get_health_status.errors.items

\* load_all_models ended with a failed result for a model that an explicit
\* reload has loaded since
C15_Witness ==
    /\ Gated
    /\ \E n \in DOMAIN call.results :
          /\ ~call.results[n].success
          /\ call.results[n].error_message = "loader error"
          /\ model_status[n] = LOADED
    /\ \E r \in 1..Len(reloads) : reloads[r] = Exited

\* C16: a status changes to LOADED or FAILED only from LOADING, changes to
\* LOADING only in a step that starts a load of that name, and never changes
\* to NOT_LOADED.
C16_StatusTransitions ==
    [][\A n \in DOMAIN model_status :
          model_status'[n] # model_status[n] =>
              /\ model_status'[n] \in {LOADED, FAILED} => model_status[n] = LOADING
              /\ model_status'[n] = LOADING => InFlight(n)' = InFlight(n) + 1
              /\ model_status'[n] # NOT_LOADED]_vars

\* C17: when load_all_models has returned or raised, every registered
\* model's load has been run to its outcome.
C17_EveryLoadRun ==
    CallEnded => \A i \in 1..Len(tasks) : Finished(tasks[i])

\* C18: when the gating has run, by returning the results or by raising one
\* of its failures, every load of the call has completed and the result map
\* has an entry for every registered name.
C18_GateAfterLoads ==
    call.pc = "returned" \/ call.error \in {"critical_models_failed", "no_models_loaded"} =>
        /\ \A i \in 1..Len(tasks) : Finished(tasks[i])
        /\ DOMAIN call.results = Registered

\* a gating failure of a parallel call of three loads
C18_Witness ==
    /\ call.pc = "raised"
    /\ call.error = "critical_models_failed"
    /\ call.parallel
    /\ Len(tasks) = 3
    /\ \E n \in Registered : model_status[n] = LOADED

\* C19: a step in which a query returns, or in which its caller writes into
\* the health payload, leaves the config, status, handle, error and checksum
\* maps unchanged.
C19_QueriesPure ==
    [][payload' # payload => UNCHANGED <<registry, loader>>]_vars

\* the caller has written into its payload an error the loader does not have
C19_Witness ==
    /\ payload.kind = "health"
    /\ \E n \in Names :
          /\ n \in DOMAIN payload.value.errors.items
          /\ payload.value.errors.items[n] = "edited"
          /\ n \notin DOMAIN model_errors
    /\ \E n \in Registered : model_status[n] = LOADING

\* the results of the runs that have returned, and those of the result map
ProducedResults ==
    {tasks[i].result : i \in {j \in 1..Len(tasks) : tasks[j].pc = "done"}}
    \cup {call.results[n] : n \in DOMAIN call.results}

\* C20: every result carries a handle exactly when it is successful and an
\* error message exactly when it is not.
C20_ResultShape ==
    \A r \in ProducedResults :
        /\ r.model # NoHandle <=> r.success
        /\ r.error_message # None <=> ~r.success

\* a result map with a success next to the result of a loader that returned
\* None or of a load that ended with an escaped exception
C20_Witness ==
    /\ Gated
    /\ \E n \in DOMAIN call.results : call.results[n].success
    /\ \E n \in DOMAIN call.results :
          call.results[n].error_message \in {"Loader returned None", "FileNotFoundError"}

\* C21: get_model raises ValueError for a name that is not registered,
\* raises RuntimeError carrying the status and the recorded error (or
\* "Unknown error") for a registered name without a stored handle, and
\* otherwise returns the stored handle, which is the handle of the successful
\* result of that name's load.
C21_GetModel ==
    \A n \in Names :
        LET g == get_model(n) IN
        /\ n \notin Registered => g.raised = "ValueError"
        /\ n \in Registered /\ n \notin DOMAIN models =>
              /\ g.raised = "RuntimeError"
              /\ g.status = model_status[n]
              /\ g.error_detail = IF n \in DOMAIN model_errors THEN model_errors[n]
                                  ELSE "Unknown error"
        /\ n \in Registered /\ n \in DOMAIN models =>
              /\ g.raised = "none"
              /\ g.model = models[n]
              /\ \E i \in 1..Len(tasks) :
                    /\ tasks[i].name = n
                    /\ tasks[i].result.success
                    /\ tasks[i].result.model = g.model

\* the three cases at once: C is unknown, one registered model failed with a
\* recorded error, the other one is loaded
C21_Witness ==
    /\ get_model("C").raised = "ValueError"
    /\ \E n \in Registered :
          /\ get_model(n).raised = "RuntimeError"
          /\ get_model(n).status = FAILED
          /\ get_model(n).error_detail = "loader error"
    /\ Gated
    /\ \E n \in DOMAIN call.results :
          /\ get_model(n).raised = "none"
          /\ get_model(n).model = call.results[n].model

\* C22: once load_all_models has started the model directory exists and
\* every registered config has its unit of work, also when the directory had
\* to be created; a call that raises raises a gating failure or the escaped
\* exception of a load, never a failure about the directory.
C22_ModelDirCreated ==
    call.pc # "idle" =>
        /\ model_dir_exists
        /\ Len(tasks) = Len(order)
        /\ call.error \in {"none", "critical_models_failed", "no_models_loaded", "escaped"}
        /\ call.pc = "returned" => call.error = "none"

\* the directory was created and the call has returned the results normally
C22_Witness ==
    /\ call.mkdir
    /\ call.pc = "returned"
    /\ \E n \in Registered : model_status[n] = LOADED

\* the checksum of config c is not validated
NoChecksumCheck(c) == ~(validate_checksums /\ c.expected_checksum # NoChecksum)

\* C23: for a config without an expected checksum, or with validate_checksums
\* unset, _validate_model_file decides as _validate_file_exists does for
\* every artifact, whatever its digest, no checksum is recorded or returned
\* and no load ends with a checksum mismatch; with both set, an artifact that
\* passes the file checks is valid exactly when its digest is the expected one.
C23_ChecksumOnlyWhenBoth ==
    /\ \A i \in 1..Len(tasks) :
          LET t == tasks[i] IN
          NoChecksumCheck(t.config) =>
              /\ t.name \notin DOMAIN model_checksums
              /\ t.result.checksum = NoChecksum
              /\ t.result.error_message # "Checksum mismatch"
    /\ \A n \in Registered, f \in AllFiles :
          LET c == model_configs[n]
              v == validate_model_file(c, f, validate_checksums)
              e == validate_file_exists(f)
          IN  /\ NoChecksumCheck(c) =>
                    /\ v.raised = e.raised
                    /\ v.valid = e.valid
                    /\ v.checksum = NoChecksum
              /\ ~NoChecksumCheck(c) /\ ~e.raised /\ e.valid =>
                    (v.valid <=> Lower(f.digest) = Lower(c.expected_checksum))

\* validate_checksums is unset: a model with an expected checksum has been
\* loaded and no checksum is recorded for it
C23_Witness ==
    /\ ~validate_checksums
    /\ \E i \in 1..Len(tasks) :
          /\ tasks[i].config.expected_checksum # NoChecksum
          /\ tasks[i].result.success
          /\ tasks[i].name \notin DOMAIN model_checksums
          /\ model_status[tasks[i].name] = LOADED

\* C24: before every call of the loader capability, a call that returns None
\* and a call that raises lead to the same step: both are recorded as a
\* failed call, both sleep and go to the next attempt when attempts are left,
\* and on the last attempt both end the run with an unsuccessful result,
\* status FAILED, an error recorded and no handle stored.
C24_NoneIsFailure ==
    \A i \in 1..Len(tasks) :
        LET t == tasks[i]
            a == load_attempt(t, "none")
            b == load_attempt(t, "raise")
        IN  t.pc = "attempt" =>
            /\ a.task.pc = b.task.pc
            /\ a.task.attempt = b.task.attempt
            /\ a.task.events = b.task.events
            /\ Len(a.task.errors) = Len(b.task.errors)
            /\ a.task.result.success = b.task.result.success
            /\ a.model_status = b.model_status
            /\ a.models = b.models
            /\ DOMAIN a.model_errors = DOMAIN b.model_errors
            /\ IF t.attempt = t.config.retry_count - 1
               THEN /\ a.task.pc = "done"
                    /\ ~a.task.result.success
                    /\ a.task.result.model = NoHandle
                    /\ a.model_status[t.name] = FAILED
                    /\ a.model_errors[t.name] = "Loader returned None"
                    /\ t.name \notin DOMAIN a.models
               ELSE /\ a.task.pc = "attempt"
                    /\ a.task.attempt = t.attempt + 1
                    /\ a.model_status = model_status
                    /\ a.model_errors = model_errors

\* a run whose loader returned None on its first and on its last call
C24_Witness ==
    /\ recording
    /\ \E i \in 1..Len(tasks) :
          LET t == tasks[i] IN
          /\ t.pc = "done"
          /\ Len(t.errors) = t.config.retry_count
          /\ Len(t.errors) >= 2
          /\ t.errors[1] = "Loader returned None"
          /\ t.errors[Len(t.errors)] = "Loader returned None"
          /\ model_status[t.name] = FAILED
          /\ t.name \notin DOMAIN models

\* C25: a run whose calls all failed has persisted the error text of its
\* last call, in the error map and in its result; a run that has not ended,
\* before, between and during its attempts and sleeps, has status LOADING
\* and no entry in the error map.
C25_LastErrorPersisted ==
    \A i \in 1..Len(tasks) :
        LET t == tasks[i] IN
        recording =>
            /\ t.pc = "done" /\ ~t.result.success /\ Calls(t) > 0 =>
                  /\ Len(t.errors) = Calls(t)
                  /\ model_status[t.name] = FAILED
                  /\ model_errors[t.name] = t.errors[Len(t.errors)]
                  /\ t.result.error_message = t.errors[Len(t.errors)]
            /\ Running(t) =>
                  /\ model_status[t.name] = LOADING
                  /\ t.name \notin DOMAIN model_errors

\* the calls of a run failed with different errors, the last one is persisted;
\* another run is sleeping after a failed call
C25_Witness ==
    /\ recording
    /\ \E i \in 1..Len(tasks) :
          /\ tasks[i].pc = "done"
          /\ ~tasks[i].result.success
          /\ tasks[i].errors = <<"loader error", "Loader returned None">>
          /\ model_errors[tasks[i].name] = "Loader returned None"
    /\ \E i \in 1..Len(tasks) :
          /\ tasks[i].pc = "attempt"
          /\ Len(tasks[i].errors) = 2
          /\ model_status[tasks[i].name] = LOADING

\* the call runs, or has run, in sequential mode
Sequential == call.pc = "sequential" \/ (CallEnded /\ call.workers = 0)

\* C26: in sequential mode the units of work are the registered configs in
\* registration order, a load has started only when the load of every
\* earlier-registered model has reached its outcome, and at most one load is
\* running.
C26_SequentialOrder ==
    Sequential =>
        /\ Len(tasks) = Len(order)
        /\ \A i \in 1..Len(tasks) : tasks[i].name = order[i]
        /\ \A i, j \in 1..Len(tasks) :
              i < j /\ tasks[j].pc # "queued" => Finished(tasks[i])
        /\ Cardinality(RunningTasks) <= 1

\* the first model has its outcome, the second is being loaded, the third waits
C26_Witness ==
    /\ call.pc = "sequential"
    /\ Len(tasks) = 3
    /\ tasks[1].pc = "done"
    /\ Running(tasks[2])
    /\ tasks[3].pc = "queued"

\* the task can reach its outcome by its own steps
CanReachOutcome(t) ==
    \E e \in Steps(t, Files, Outcomes) :
        \/ Finished(e.task)
        \/ \E d \in Steps(e.task, Files, Outcomes) : Finished(d.task)

\* C29: in parallel mode with at least two workers, while the task of one
\* model is in a backoff sleep, every other task that holds a worker can take
\* its next step, and can reach its outcome by its own steps.
C29_SleepBlocksOneWorker ==
    call.pc = "parallel" /\ call.workers >= 2 =>
        \A i, j \in RunningTasks :
            i # j /\ Sleeping(tasks[i]) =>
                /\ ENABLED PoolStep(j, Files, Outcomes)
                /\ CanReachOutcome(tasks[j])

\* one task is still in its backoff sleep, and with two workers the two other
\* tasks have reached their outcomes one after the other
C29_Witness ==
    /\ call.pc = "parallel"
    /\ call.workers = 2
    /\ Len(tasks) = 3
    /\ \E i \in 1..3 :
          /\ Sleeping(tasks[i])
          /\ \A j \in 1..3 \ {i} : tasks[j].pc = "done"

\* the reasons of _validate_file_exists
FileReasons ==
    {"Model file not found", "Path is not a file", "Model file is empty (0 bytes)",
     "Model file is not readable (permission denied)"}

\* C27: the verdict _validate_file_exists returned for a path is valid
\* exactly when the path exists, is a regular file, is not empty and is
\* readable; otherwise its reason is that of the first of these four checks,
\* in this order, that fails, the four reasons being different. For every
\* config, _validate_model_file reports a checksum mismatch for this path
\* only when the four checks passed, and a missing path gets the
\* missing-file reason.
C27_FirstFailingCheck ==
    payload.kind = "exists" =>
        LET f == payload.value.file
            o == payload.value.outcome
        IN  /\ ~o.raised
            /\ o.valid <=> f.exists /\ f.is_file /\ f.size > 0 /\ f.readable
            /\ ~o.valid => o.msg \in FileReasons
            /\ o.msg = "Model file not found" <=> ~f.exists
            /\ o.msg = "Path is not a file" <=> f.exists /\ ~f.is_file
            /\ o.msg = "Model file is empty (0 bytes)" <=>
                  f.exists /\ f.is_file /\ f.size = 0
            /\ o.msg = "Model file is not readable (permission denied)" <=>
                  f.exists /\ f.is_file /\ f.size > 0 /\ ~f.readable
            /\ Cardinality(FileReasons) = 4
            /\ \A c \in ChecksumConfigs, vc \in BOOLEAN :
                  LET v == validate_model_file(c, f, vc) IN
                  /\ v.msg = "Checksum mismatch" =>
                        /\ o.valid
                        /\ vc /\ c.expected_checksum # NoChecksum
                        /\ Lower(f.digest) # Lower(c.expected_checksum)
                  /\ ~o.valid => v.msg = o.msg

\* an empty file that is not readable either: the size is reported
C27_Witness ==
    /\ payload.kind = "exists"
    /\ payload.value.file.exists /\ payload.value.file.is_file
    /\ payload.value.file.size = 0 /\ ~payload.value.file.readable
    /\ payload.value.outcome.msg = "Model file is empty (0 bytes)"
    /\ \E n \in Registered : n \in DOMAIN model_errors /\ model_errors[n] = "Checksum mismatch"

\* d.get(n), as a sequence: empty when d has no entry for n
Get(d, n) == IF n \in DOMAIN d THEN <<d[n]>> ELSE <<>>
\* the status, handle, recorded error and recorded checksum of n
Entry(n) ==
    <<Get(model_status, n), Get(models, n), Get(model_errors, n), Get(model_checksums, n)>>
\* this step is a step of a load of n: of its task in load_all_models, of a
\* reload of n, or the start of a reload of n
LoadStepOf(n) ==
    \/ /\ Len(tasks') = Len(tasks)
       /\ \E i \in 1..Len(tasks) : tasks'[i] # tasks[i] /\ tasks[i].name = n
    \/ /\ Len(reloads') = Len(reloads)
       /\ \E r \in 1..Len(reloads) : reloads'[r] # reloads[r] /\ reloads[r].name = n
    \/ /\ Len(reloads') = Len(reloads) + 1
       /\ reloads'[Len(reloads')].name = n

\* C28: a step of a load of model A, in the worker pool, in the sequential
\* loop or in a reload, leaves the status, handle, recorded error and recorded
\* checksum of every other name as they were.
C28_LoadWritesOwnEntries ==
    [][\A A \in Names :
          LoadStepOf(A) => \A B \in Names \ {A} : Entry(B)' = Entry(B)]_vars

\* two models with different entries, one of them reloaded: A is loaded with
\* its checksum recorded, B has failed with a checksum mismatch
C28_Witness ==
    /\ \E r \in 1..Len(reloads) : reloads[r] = Exited
    /\ CallEnded
    /\ Entry("A") = <<<<LOADED>>, <<<<1, "A">>>>, <<>>, <<GoodDigest>>>>
    /\ Entry("B") = <<<<FAILED>>, <<>>, <<"Checksum mismatch">>, <<>>>>

\* the status a load with outcome r, returned or raised, leaves behind
StatusAfter(t) ==
    IF t.pc = "done" /\ t.result.success THEN LOADED
    ELSE IF t.pc = "done" /\ t.result.error_message # "Unknown error during loading" THEN FAILED
    ELSE LOADING

\* C30: the end of a load_all_models call is a function of the outcomes of
\* the loads of the registered models alone, the same in sequential and in
\* parallel mode: every model has had its load and has the status, handle and
\* error of its outcome, the call has raised exactly when the gating of these
\* outcomes fails, and the health verdict is the one of the models whose
\* outcome is a success.
C30_ModeIndependent ==
    CallEnded =>
        LET outcomes == collect_results
            successes == {n \in Registered : outcomes[n].success}
            required_failed == <<>> # SelectSeq(order,
                                  LAMBDA n : model_configs[n].required /\ n \notin successes)
        IN  /\ \A i \in 1..Len(tasks) :
                  /\ Finished(tasks[i])
                  /\ model_status[tasks[i].name] = StatusAfter(tasks[i])
            /\ DOMAIN models = successes
            /\ \A n \in successes : models[n] = outcomes[n].model
            /\ call.pc = IF validate_required_models(outcomes) = "none"
                         THEN "returned" ELSE "raised"
            /\ get_health_status.status =
                  health_verdict(Cardinality(successes), Cardinality(Registered),
                                 IF required_failed THEN <<"missing">> ELSE <<>>)

\* the load of tasks[i] is inside a call of its loader capability that never
\* returns
Hung(i) == i \in 1..Len(tasks) /\ tasks[i].pc = "hung"
\* the status of the model of tasks[j] is LOADED or FAILED
Settled(j) ==
    j \in 1..Len(tasks) /\ model_status[tasks[j].name] \in {LOADED, FAILED}

\* C31: once the loader capability of a model hangs, its task stays in that
\* call and keeps its worker, and load_all_models neither returns nor raises;
\* in a pool of at least two workers every other model reaches the status
\* LOADED or FAILED.
C31_HungLoader ==
    /\ [](\A i \in 1..Len(tasks) : Hung(i) => ~CallEnded /\ i \in RunningTasks)
    /\ [][\A i \in 1..Len(tasks) : Hung(i) => tasks'[i].pc = "hung"]_vars
    /\ \A i, j \in 1..Len(NameOrder) :
          (Hung(i) /\ j # i /\ j \in 1..Len(tasks) /\ call.workers >= 2) ~> Settled(j)

\* the load of tasks[i] has started and has not ended
Started(i) == i \in 1..Len(tasks) /\ Running(tasks[i])
\* the load of tasks[i] has ended with the status of its model LOADED or FAILED
Ended(i) == i \in 1..Len(tasks) /\ Finished(tasks[i]) /\ Settled(i)

\* C32: when every call of a loader capability returns or raises, every load
\* that has started ends with the status of its model LOADED or FAILED, and
\* every load_all_models call returns or raises.
C32_Termination ==
    /\ \A i \in 1..Len(NameOrder) : Started(i) ~> Ended(i)
    /\ InCall ~> CallEnded

\* no load of n has started: every unit of work for n is still queued and no
\* reload was requested
NeverLoaded(n) ==
    /\ reloads = <<>>
    /\ \A i \in 1..Len(tasks) : tasks[i].name = n => tasks[i].pc = "queued"

\* register_model has just stored a config under the fresh name n
RegisteredFresh(n) == n \notin DOMAIN model_configs /\ n \in DOMAIN model_configs'

\* C33: registering a fresh name stores its config and the status NOT_LOADED
\* and writes nothing else; a registered model whose load has not started is
\* not loaded for is_model_loaded, get_model_info and get_health_status, and
\* while no load has started the verdict of a non-empty registry is
\* "unhealthy".
C33_FreshRegistration ==
    /\ [](\A n \in Registered :
            NeverLoaded(n) =>
                /\ ~is_model_loaded(n)
                /\ ~get_model_info(n).loaded
                /\ get_model_info(n).status = NOT_LOADED
                /\ get_model_info(n).error = None
                /\ ~get_health_status.models_loaded[n])
    /\ []((Registered # {} /\ \A n \in Registered : NeverLoaded(n)) =>
            /\ get_health_status.status = "unhealthy"
            /\ get_health_status.loaded_count = 0)
    /\ [][\A n \in Names :
            RegisteredFresh(n) =>
                /\ DOMAIN model_configs' = DOMAIN model_configs \cup {n}
                /\ \A m \in DOMAIN model_configs : model_configs'[m] = model_configs[m]
                /\ model_status' = Put(model_status, n, NOT_LOADED)
                /\ order' = Append(order, n)
                /\ UNCHANGED <<models, model_errors, model_checksums, call, tasks,
                               validate_checksums>>]_vars

\* three optional models are registered and load_all_models has not been
\* called
C33_Witness ==
    /\ call.pc = "idle"
    /\ Len(order) = 3
    /\ \A n \in Registered : ~model_configs[n].required /\ model_status[n] = NOT_LOADED

\* a step of register_model: the only step taken between construction and
\* load_all_models that is neither the start of the call nor a step of a
\* reload
RegisterStep == call.pc = "idle" /\ UNCHANGED <<call, reloads>>

\* C34: register_model on a registered name leaves the config stored under
\* the name, its status, its handle and its recorded error as they were.
C34_DuplicateFailsFast ==
    [][RegisterStep =>
          \A n \in DOMAIN model_configs :
              /\ model_configs'[n] = model_configs[n]
              /\ model_status'[n] = model_status[n]
              /\ UNCHANGED <<models, model_errors>>]_vars

\* C35: once load_all_models has returned its results the health verdict is
\* "healthy" or "degraded", and once its gating has raised the verdict is
\* "unhealthy", for every registry, the empty one included.
C35_GatingAgreesWithHealth ==
    /\ call.pc = "returned" => get_health_status.status \in {"healthy", "degraded"}
    /\ call.pc = "raised" /\ Gated => get_health_status.status = "unhealthy"

\* C36: in every state, after registrations, load_all_models and reloads,
\* get_model(n) returns a handle without raising exactly when
\* is_model_loaded(n) holds, so only for a model whose status is LOADED.
C36_GetModelIffLoaded ==
    \A n \in Names :
        /\ get_model(n).raised = "none" <=> is_model_loaded(n)
        /\ get_model(n).raised = "none" => model_status[n] = LOADED

\* C37: once the gating of load_all_models has run, every entry of the result
\* map agrees with the loader: a successful result goes with the status
\* LOADED and no recorded error, an unsuccessful one with the status FAILED
\* and a recorded error equal to the result's error message.
C37_ResultsAgreeWithState ==
    Gated =>
        \A n \in DOMAIN call.results :
            LET r == call.results[n] IN
            IF r.success
            THEN model_status[n] = LOADED /\ n \notin DOMAIN model_errors
            ELSE /\ model_status[n] = FAILED
                 /\ n \in DOMAIN model_errors
                 /\ model_errors[n] = r.error_message

\* C38: for every table of loaded flags and every required set, the verdict
\* of the GGUF server's health_check is the verdict of get_health_status.
C38_SameVerdict ==
    payload.kind = "verdicts" => payload.value.gguf = payload.value.loader

\* a required model is missing while another model is loaded: both say
\* "unhealthy", each by its own branch
C38_Witness ==
    /\ payload.kind = "verdicts"
    /\ \E n \in payload.value.required : ~payload.value.models_loaded[n]
    /\ \E n \in DOMAIN payload.value.models_loaded : payload.value.models_loaded[n]
    /\ payload.value.gguf = "unhealthy"
    /\ payload.value.loader = "unhealthy"

\* C39: a server is ready only when every model of its required set is
\* loaded: the GGUF server with summariser and fir_summariser, the ASR/OCR
\* server with whisper.
C39_RequiredFailureBlocksReady ==
    /\ gguf_server.pc = "ready" =>
          \A n \in GgufRequired : gguf_server.models[n] # NoHandle
    /\ asr_server.pc = "ready" =>
          \A n \in AsrRequired : asr_server.MODELS[n] # NoHandle

\* C40: a POST /inference request for a model name outside the manager's
\* table is answered with status 400 and a detail naming the invalid model,
\* and the model is not called.
C40_InvalidModel400 ==
    payload.kind = "inference" /\ payload.name \notin DOMAIN gguf_server.models =>
        /\ payload.value.status_code = 400
        /\ payload.value.detail = "Invalid model_name"
        /\ ~payload.value.ran

====
